---- MODULE Spec2Model ----
(***************************************************************************)
(* Day-window assembly of TV listings in mx-scrape.                        *)
(*                                                                         *)
(*   epg_scraper.py  midnight-split strategy  (yesterday/today/tomorrow)   *)
(*   scraper.py      date-filter strategy     (one page per target date)   *)
(*   main.py         interval-overlap strategy (XMLTV, absolute instants)  *)
(*                                                                         *)
(*   download_show_images.py  logo download for one schedule file         *)
(*                                                                         *)
(* Spec runs one of the three scrapers; SpecImages runs one process_json;  *)
(* SpecSplit, SpecPaths and SpecEnd exercise split_schedule_at_midnight,   *)
(* the file-name derivations and calculate_end_times on their own.         *)
(* A run executes one of the three scripts (variable script).  Wall-clock  *)
(* strings such as "23:00" are sequences of one-character strings, so that *)
(* hour parsing, formatting and lexicographic comparison are computed the  *)
(* way the Python code computes them.                                      *)
(***************************************************************************)
EXTENDS Integers, Sequences, FiniteSets, TLC

(***************************************************************************)
(* Bounds of the model.                                                    *)
(***************************************************************************)
\* longest raw list handed to split_schedule_at_midnight on its own
MaxSplitLen == 4
\* longest raw list the today page (epg_scraper.py) or a page of scraper.py
\* carries
MaxLen == 3
\* longest raw list the yesterday and tomorrow pages (epg_scraper.py) carry
MaxAdjLen == 2
\* number of lines of channel.txt / filter.txt
MaxChannels == 2
\* number of <programme> elements of the XMLTV feed
MaxProgs == 2
\* longest channel name handed to the file-name derivations on their own
MaxNameLen == 3
\* number of shows in the schedule of the JSON file process_json rewrites
MaxShows == 2

(***************************************************************************)
(* Strings.                                                                *)
(***************************************************************************)
Digits == <<"0", "1", "2", "3", "4", "5", "6", "7", "8", "9">>

IsDigit(c) == \E d \in 1..10 : Digits[d] = c

DigitVal(c) == (CHOOSE d \in 1..10 : Digits[d] = c) - 1

\* code point order of the characters that occur in the model
Ord(c) == IF IsDigit(c) THEN 48 + DigitVal(c)
          ELSE IF c = ":" THEN 58
          ELSE IF c = "A" THEN 65
          ELSE IF c = "B" THEN 66
          ELSE IF c = "T" THEN 84
          ELSE 127

\* Python's s1 < s2 on str: lexicographic by code point, a proper prefix is less
RECURSIVE StrLess(_, _)
StrLess(a, b) ==
    IF b = <<>> THEN FALSE
    ELSE IF a = <<>> THEN TRUE
    ELSE IF Ord(Head(a)) < Ord(Head(b)) THEN TRUE
    ELSE IF Ord(Head(a)) > Ord(Head(b)) THEN FALSE
    ELSE StrLess(Tail(a), Tail(b))

StrLE(a, b) == a = b \/ StrLess(a, b)

\* s.split(':')[0]
RECURSIVE SplitColonFirst(_)
SplitColonFirst(s) ==
    IF s = <<>> THEN <<>>
    ELSE IF Head(s) = ":" THEN <<>>
    ELSE <<Head(s)>> \o SplitColonFirst(Tail(s))

\* int(s) raises ValueError on the empty string and on a non-digit
IntOk(s) == s # <<>> /\ \A i \in 1..Len(s) : IsDigit(s[i])

RECURSIVE IntVal(_)
IntVal(s) == IF s = <<>> THEN 0
             ELSE IntVal(SubSeq(s, 1, Len(s) - 1)) * 10 + DigitVal(s[Len(s)])

\* "%02d" of a number below 100
Pad2(n) == <<Digits[(n \div 10) + 1], Digits[(n % 10) + 1]>>

HM(h, m) == Pad2(h) \o <<":">> \o Pad2(m)

EmptyStr == <<>>

(***************************************************************************)
(* Programs: the dict built by parse_page / parse_schedule / extract_schedule *)
(***************************************************************************)
Entry(name, time) ==
    [show_name |-> name, show_logo |-> "", show_category |-> "",
     start_time |-> time, end_time |-> EmptyStr, episode_description |-> ""]

\* the stable sort of list.sort(key=...): le[i][j] is key(L[i]) <= key(L[j])
SortedBy(L, le) ==
    LET n == Len(L)
        Before(j, i) == \/ ~le[i][j]
                        \/ (le[j][i] /\ j < i)
        Pos(i) == Cardinality({j \in 1..n : j # i /\ Before(j, i)}) + 1
    IN  [p \in 1..n |-> L[CHOOSE i \in 1..n : Pos(i) = p]]

(***************************************************************************)
(* epg_scraper.py                                                          *)
(***************************************************************************)
\* the loop with "curr_hour <= prev_hour": an equal hour taken for a rollover
RECURSIVE SplitIndexFromLE(_, _)
SplitIndexFromLE(L, i) ==
    IF i >= Len(L) THEN Len(L)
    ELSE LET prev == SplitColonFirst(L[i].start_time)
             curr == SplitColonFirst(L[i + 1].start_time)
         IN  IF ~IntOk(prev) \/ ~IntOk(curr)
               THEN SplitIndexFromLE(L, i + 1)
             ELSE IF IntVal(curr) <= IntVal(prev)
               THEN i
             ELSE SplitIndexFromLE(L, i + 1)

\* the for loop of split_schedule_at_midnight from index i (0-based) on
RECURSIVE SplitIndexFrom(_, _)
SplitIndexFrom(L, i) ==
    IF i >= Len(L) THEN Len(L)
    ELSE LET prev == SplitColonFirst(L[i].start_time)
             curr == SplitColonFirst(L[i + 1].start_time)
         IN  IF ~IntOk(prev) \/ ~IntOk(curr)
               THEN SplitIndexFrom(L, i + 1)
             ELSE IF IntVal(curr) < IntVal(prev)
               THEN i
             ELSE SplitIndexFrom(L, i + 1)

\* the second part cut one entry late: part_2 = schedule_list[split_index+1:]
split_schedule_at_midnight_drop(L) ==
    IF L = <<>> THEN <<(<<>>), (<<>>)>>
    ELSE LET split_index == SplitIndexFrom(L, 1)
         IN  <<SubSeq(L, 1, split_index), SubSeq(L, split_index + 2, Len(L))>>

split_schedule_at_midnight(L) ==
    IF L = <<>> THEN <<(<<>>), (<<>>)>>
    ELSE LET split_index == SplitIndexFrom(L, 1)
         IN  <<SubSeq(L, 1, split_index), SubSeq(L, split_index + 1, Len(L))>>

\* end times that skip one show: end_time = start_time of the show after next
calculate_end_times_skip(L, anchor) ==
    [i \in 1..Len(L) |->
        IF i < Len(L) - 1
          THEN [L[i] EXCEPT !.end_time = L[i + 2].start_time]
        ELSE IF anchor # <<>>
          THEN [L[i] EXCEPT !.end_time = anchor[1].start_time]
        ELSE [L[i] EXCEPT !.end_time = EmptyStr]]

\* end times that never look at the next day's first show
calculate_end_times_no_anchor(L, anchor) ==
    [i \in 1..Len(L) |->
        IF i < Len(L)
          THEN [L[i] EXCEPT !.end_time = L[i + 1].start_time]
          ELSE [L[i] EXCEPT !.end_time = EmptyStr]]

\* anchor: <<>> for None, otherwise <<first show of the next day>>
calculate_end_times(L, anchor) ==
    [i \in 1..Len(L) |->
        IF i < Len(L)
          THEN [L[i] EXCEPT !.end_time = L[i + 1].start_time]
        ELSE IF anchor # <<>>
          THEN [L[i] EXCEPT !.end_time = anchor[1].start_time]
        ELSE [L[i] EXCEPT !.end_time = EmptyStr]]

\* Python values that are either None or a str
PyNone == [type |-> "NoneType", val |-> ""]

PyStr(s) == [type |-> "str", val |-> s]

\* get_soup's result: None (ok = FALSE) or the parsed page.  items are the
\* <li> of ul.broadcasts that carry both a time and a title, in page order.
NoSoup == [ok |-> FALSE, title |-> "", items |-> <<>>]

\* parse_page without its "if not soup" guard: soup.find on None raises
parse_page_unguarded(soup) ==
    [raised |-> ~soup.ok, name |-> PyStr(soup.title), items |-> soup.items]

\* parse_page never raises: a missing page gives (None, [])
parse_page(soup) ==
    IF ~soup.ok
      THEN [raised |-> FALSE, name |-> PyNone, items |-> <<>>]
      ELSE [raised |-> FALSE, name |-> PyStr(soup.title), items |-> soup.items]

\* the two parts joined the wrong way round
full_schedule_swapped(post_midnight, day_part) == day_part \o post_midnight

\* FULL TODAY = Yesterday(after 00:00) + Today(before 00:00), and the same
\* one day on for FULL TOMORROW
full_schedule(post_midnight, day_part) == post_midnight \o day_part

\* steps 2 to 4 of the loop body of main()
Stitch(slug, sy, st, stm) ==
    LET py == parse_page(sy)
        pt == parse_page(st)
        ptm == parse_page(stm)
        name == IF pt.name # PyStr("Unknown") THEN pt.name ELSE PyStr(slug)
        yest_post_midnight == split_schedule_at_midnight(py.items)[2]
        today == split_schedule_at_midnight(pt.items)
        tom_day_part == split_schedule_at_midnight(ptm.items)[1]
        full_today == full_schedule(yest_post_midnight, today[1])
        full_tomorrow == full_schedule(today[2], tom_day_part)
        first_show_tm == IF full_tomorrow # <<>> THEN <<full_tomorrow[1]>> ELSE <<>>
    IN  [raised |-> py.raised \/ pt.raised \/ ptm.raised,
         channel_name |-> name,
         full_today_schedule |-> calculate_end_times(full_today, first_show_tm),
         full_tomorrow_schedule |-> calculate_end_times(full_tomorrow, <<>>)]

(***************************************************************************)
(* State.                                                                  *)
(***************************************************************************)
VARIABLES
    script,                  \* which script runs
    pc,                      \* its position
    ch,                      \* index of the channel being processed
    attempted,               \* channels whose processing has begun
    error,                   \* the uncaught exception that ended the run, or ""
    out,                     \* the files written for the channel last processed
    soup_yest, soup_today, soup_tom,
    channel_name, full_today_schedule, full_tomorrow_schedule,
    html, target,            \* scraper.py: the page in hand and its target date
    today_last_end,          \* scraper.py: end_time of the last entry saved for today
    all_extracted_data,      \* main.py: <<[name, programs]>> in dict order
    schedule_list, part_1, part_2,
    channels, paths,         \* two channels of one run and their output paths
    data,                    \* download_show_images.py: the schedule of the JSON
    existing,                \* ... the files of output_dir
    download_tasks,          \* ... <<[url, save_path]>>
    workers,                 \* ... the state of each task in the thread pool
    heap,                    \* the dicts of the three parsed lists, by identity
    heap_before,             \* ... as they were before any end time was set
    first_show_tm            \* <<>> for None, otherwise <<a dict's identity>>

epgVars == <<soup_yest, soup_today, soup_tom,
             channel_name, full_today_schedule, full_tomorrow_schedule>>
splitVars == <<schedule_list, part_1, part_2>>
pathVars == <<channels, paths>>
\* the variables of the functions that are exercised on their own
imageVars == <<data, existing, download_tasks, workers>>
endVars == <<heap, heap_before, first_show_tm>>
callVars == <<splitVars, pathVars, imageVars, endVars>>
otherVars == <<html, target, today_last_end, all_extracted_data, callVars>>
runVars == <<script, pc, ch, attempted, error, out>>
vars == <<runVars, epgVars, otherVars>>

\* a file of schedule/<folder>/, or NoFile where none was written
NoFile == [folder |-> "", filename |-> "", channel |-> PyNone,
           date |-> "", schedule |-> <<>>]

NoWrite == [today |-> NoFile, tomorrow |-> NoFile]

\* channel.txt / filter.txt
Slugs == <<"canal-5", "azteca-7", "las-estrellas">>
Channels == [i \in 1..MaxChannels |-> Slugs[i]]

Days == {"yesterday", "today", "tomorrow"}

\* what a page can carry
Titles == {"Unknown", "Canal 5"}
EpgTimes == {HM(0, 30), HM(23, 0)}

ListsOver(tag, Times, n) ==
    {[i \in 1..Len(ts) |-> Entry(<<tag, i>>, ts[i])] :
        ts \in UNION {[1..k -> Times] : k \in 0..n}}

Soups(tag, titles, n) ==
    {NoSoup} \cup {[ok |-> TRUE, title |-> t, items |-> L] :
                      t \in titles, L \in ListsOver(tag, EpgTimes, n)}

\* download_show_images.py is not running
ImagesIdle ==
    data = <<>> /\ existing = {} /\ download_tasks = <<>> /\ workers = <<>>

\* calculate_end_times is not exercised on its own
EndIdle == heap = <<>> /\ heap_before = <<>> /\ first_show_tm = <<>>

Blank ==
    /\ pc = "start" /\ ch = 1 /\ attempted = {} /\ error = ""
    /\ out = NoWrite
    /\ soup_yest = NoSoup /\ soup_today = NoSoup /\ soup_tom = NoSoup
    /\ channel_name = PyNone
    /\ full_today_schedule = <<>> /\ full_tomorrow_schedule = <<>>
    /\ html = NoSoup /\ target = "today" /\ today_last_end = EmptyStr
    /\ all_extracted_data = <<>>
    /\ schedule_list = <<>> /\ part_1 = <<>> /\ part_2 = <<>>
    /\ channels = <<>> /\ paths = <<>>
    /\ ImagesIdle /\ EndIdle

Init == script \in {"epg_scraper", "main", "scraper"} /\ Blank

\* an uncaught exception ends the process: its locals are gone, the files stay
Crash(e, files) ==
    /\ pc' = "crashed" /\ error' = e /\ out' = files
    /\ soup_yest' = NoSoup /\ soup_today' = NoSoup /\ soup_tom' = NoSoup
    /\ channel_name' = PyNone
    /\ full_today_schedule' = <<>> /\ full_tomorrow_schedule' = <<>>

\* the for statement takes the next channel, or the loop ends.  The locals of
\* the iteration that ended are dead (each is assigned before it is read
\* again), and out is of the channel in hand.
Advance ==
    /\ pc = "next"
    /\ IF ch < MaxChannels
         THEN pc' = "start" /\ ch' = ch + 1
         ELSE pc' = "finished" /\ ch' = ch
    /\ out' = NoWrite
    /\ soup_yest' = NoSoup /\ soup_today' = NoSoup /\ soup_tom' = NoSoup
    /\ channel_name' = PyNone
    /\ full_today_schedule' = <<>> /\ full_tomorrow_schedule' = <<>>
    /\ UNCHANGED <<script, attempted, error, otherVars>>

(***************************************************************************)
(* epg_scraper.py: main()                                                  *)
(***************************************************************************)
\* for slug in channels: ... soup_yest = get_soup(...)
\* (the title of the yesterday and tomorrow pages is never read: name_y and
\*  name_tm are dead, so only the today page varies in its title)
EpgFetchYesterday ==
    /\ script = "epg_scraper" /\ pc = "start"
    /\ \E s \in Soups("y", {"Unknown"}, MaxAdjLen) : soup_yest' = s
    /\ pc' = "fetch_today"
    /\ attempted' = attempted \cup {ch}
    /\ UNCHANGED <<script, ch, error, out, soup_today, soup_tom,
                   channel_name, full_today_schedule, full_tomorrow_schedule,
                   otherVars>>

EpgFetchToday ==
    /\ script = "epg_scraper" /\ pc = "fetch_today"
    /\ \E s \in Soups("t", Titles, MaxLen) : soup_today' = s
    /\ pc' = "fetch_tomorrow"
    /\ UNCHANGED <<script, ch, attempted, error, out, soup_yest, soup_tom,
                   channel_name, full_today_schedule, full_tomorrow_schedule,
                   otherVars>>

EpgFetchTomorrow ==
    /\ script = "epg_scraper" /\ pc = "fetch_tomorrow"
    /\ \E s \in Soups("m", {"Unknown"}, MaxAdjLen) : soup_tom' = s
    /\ pc' = "stitch"
    /\ UNCHANGED <<script, ch, attempted, error, out, soup_yest, soup_today,
                   channel_name, full_today_schedule, full_tomorrow_schedule,
                   otherVars>>

\* save_json(folder, filename, channel_name, date_str, schedule_data)
save_json(folder, filename, name, date_str, schedule_data) ==
    [folder |-> folder, filename |-> filename, channel |-> name,
     date |-> date_str, schedule |-> schedule_data]

\* step 5: a folder's file is written only for a non-empty list
EpgFile(folder, slug, r) ==
    LET schedule == IF folder = "today" THEN r.full_today_schedule
                                        ELSE r.full_tomorrow_schedule
    IN  IF schedule # <<>>
          THEN save_json(folder, slug, r.channel_name, folder, schedule)
          ELSE NoFile

\* steps 2 to 5 of the loop body.  save_json raises when makedirs or open
\* fails (OSError); main() has no handler, so that ends the run.
EpgProcess ==
    /\ script = "epg_scraper" /\ pc = "stitch"
    /\ \E r \in {Stitch(Channels[ch], soup_yest, soup_today, soup_tom)} :
       \E today \in {EpgFile("today", Channels[ch], r)} :
       \E tomorrow \in {EpgFile("tomorrow", Channels[ch], r)} :
           IF r.raised
             THEN Crash("AttributeError", NoWrite) /\ ch' = ch
             ELSE \/ /\ channel_name' = r.channel_name
                     /\ full_today_schedule' = r.full_today_schedule
                     /\ full_tomorrow_schedule' = r.full_tomorrow_schedule
                     /\ out' = [today |-> today, tomorrow |-> tomorrow]
                     /\ pc' = "next"
                     /\ UNCHANGED <<ch, error, soup_yest, soup_today, soup_tom>>
                  \/ /\ today # NoFile
                     /\ Crash("OSError", NoWrite) /\ ch' = ch
                  \/ /\ tomorrow # NoFile
                     /\ Crash("OSError", [today |-> today, tomorrow |-> NoFile])
                     /\ ch' = ch
    /\ UNCHANGED <<script, attempted, otherVars>>

(***************************************************************************)
(* scraper.py                                                              *)
(***************************************************************************)
UpperCase == <<"A", "B", "C", "D", "E", "F", "G", "H", "I", "J", "K", "L", "M",
               "N", "O", "P", "Q", "R", "S", "T", "U", "V", "W", "X", "Y", "Z">>
LowerCase == <<"a", "b", "c", "d", "e", "f", "g", "h", "i", "j", "k", "l", "m",
               "n", "o", "p", "q", "r", "s", "t", "u", "v", "w", "x", "y", "z">>

IsUpper(c) == \E k \in 1..26 : UpperCase[k] = c
IsLower(c) == \E k \in 1..26 : LowerCase[k] = c

\* str.lower() on one character
Lower(c) == IF IsUpper(c) THEN LowerCase[CHOOSE k \in 1..26 : UpperCase[k] = c]
            ELSE c

\* \w and [a-zA-Z0-9] on the characters of the model
IsAlnum(c) == IsUpper(c) \/ IsLower(c) \/ IsDigit(c)
IsWord(c) == IsAlnum(c) \/ c = "_"

\* str.strip(chars) with a one-character set
RECURSIVE LStrip(_, _)
LStrip(s, c) == IF s # <<>> /\ Head(s) = c THEN LStrip(Tail(s), c) ELSE s

RECURSIVE RStrip(_, _)
RStrip(s, c) == IF s # <<>> /\ s[Len(s)] = c
                  THEN RStrip(SubSeq(s, 1, Len(s) - 1), c) ELSE s

Strip(s, c) == RStrip(LStrip(s, c), c)

Unknown == <<"U", "n", "k", "n", "o", "w", "n">>
DotJson == <<".", "j", "s", "o", "n">>

\* save_schedule: the file name made from the channel name
ScraperFilename(name) ==
    LET under(c) == IF c = " " \/ c = "/" \/ c = "\\" THEN "_" ELSE c
        kept(c) == IsWord(c) \/ c = " " \/ c = "-"
        lowered == [k \in 1..Len(name) |-> under(Lower(name[k]))]
    IN  Strip(SelectSeq(lowered, kept), " ") \o DotJson

\* filter_24hour_schedule
filter_24hour_schedule(programs) ==
    LET keep(p) == LET h == SplitColonFirst(p.start_time)
                   IN  IntOk(h) /\ 0 <= IntVal(h) /\ IntVal(h) <= 23
    IN  SelectSeq(programs, keep)

\* key=lambda x: x['start_time']
StartLE(L) == [i \in 1..Len(L) |-> [j \in 1..Len(L) |->
                  StrLE(L[i].start_time, L[j].start_time)]]

\* parse_schedule(html_content, target_date): the items of the page dated
\* target_date, sorted by start_time, each ending where the next starts
parse_schedule(page, target_date) ==
    LET on_date(it) == it.fecha = target_date
        dated == SelectSeq(page.items, on_date)
        found == [k \in 1..Len(dated) |-> Entry(dated[k].show_name, dated[k].hora)]
        programs == SortedBy(found, StartLE(found))
    IN  [channel_name |-> IF page.items = <<>> THEN PyStr(Unknown)
                                               ELSE PyStr(page.title),
         programs |-> [k \in 1..Len(programs) |->
                          [programs[k] EXCEPT !.end_time =
                              IF k < Len(programs) THEN programs[k + 1].start_time
                                                   ELSE HM(23, 59)]]]

\* the hours the regex (\d{2}):(\d{2}) lets through include 24..99
ScraperTimes == {HM(9, 0), HM(23, 0), HM(24, 0)}
ScraperTitles == {<<"C", "a", "n", "a", "l", " ", "5">>}

Items(n) ==
    {[k \in 1..Len(ts) |-> [show_name |-> <<"p", k>>, fecha |-> ts[k][1],
                            hora |-> ts[k][2]]] :
        ts \in UNION {[1..k -> {"today", "tomorrow"} \X ScraperTimes] : k \in 0..n}}

\* fetch_schedule: None on a request error, otherwise the response text
Htmls == {NoSoup} \cup {[ok |-> TRUE, title |-> t, items |-> L] :
                           t \in ScraperTitles, L \in Items(MaxLen)}

ScraperFetch ==
    /\ script = "scraper" /\ pc = "start"
    /\ \E h \in Htmls : html' = h
    /\ pc' = "s_parse"
    /\ attempted' = attempted \cup {ch}
    /\ today_last_end' = EmptyStr
    /\ UNCHANGED <<script, ch, error, out, target, all_extracted_data,
                   epgVars, callVars>>

\* if html: parse_schedule; if programs: filter_24hour_schedule and
\* save_schedule, which raises when mkdir or open fails; main() has no handler
ScraperProcess ==
    /\ script = "scraper" /\ pc = "s_parse"
    /\ \E r \in {parse_schedule(html, target)} :
       \E file \in {save_json(target, ScraperFilename(r.channel_name.val),
                              r.channel_name, target,
                              filter_24hour_schedule(r.programs))} :
          IF html.ok /\ r.programs # <<>>
            THEN \/ /\ out' = [NoWrite EXCEPT ![target] = file]
                    /\ today_last_end' =
                          IF target = "today" /\ file.schedule # <<>>
                            THEN file.schedule[Len(file.schedule)].end_time
                            ELSE today_last_end
                    /\ pc' = "s_sleep" /\ error' = error /\ html' = html
                 \/ /\ out' = NoWrite /\ today_last_end' = EmptyStr
                    /\ pc' = "crashed" /\ error' = "OSError" /\ html' = NoSoup
            ELSE /\ out' = NoWrite /\ today_last_end' = today_last_end
                 /\ pc' = "s_sleep" /\ error' = error /\ html' = html
    /\ UNCHANGED <<script, ch, attempted, target, all_extracted_data,
                   epgVars, callVars>>

\* time.sleep(1); then tomorrow's page, or the next channel.  The page and
\* the programs of the day that ended are dead.
ScraperSleep ==
    /\ script = "scraper" /\ pc = "s_sleep"
    /\ html' = NoSoup /\ out' = NoWrite
    /\ IF target = "today"
         THEN target' = "tomorrow" /\ pc' = "s_fetch_next" /\ ch' = ch
         ELSE /\ target' = "today"
              /\ IF ch < MaxChannels
                   THEN pc' = "start" /\ ch' = ch + 1
                   ELSE pc' = "finished" /\ ch' = ch
    /\ UNCHANGED <<script, attempted, error, today_last_end, all_extracted_data,
                   epgVars, callVars>>

ScraperFetchTomorrow ==
    /\ script = "scraper" /\ pc = "s_fetch_next"
    /\ \E h \in Htmls : html' = h
    /\ pc' = "s_parse"
    /\ UNCHANGED <<script, ch, attempted, error, out, target, today_last_end,
                   all_extracted_data, epgVars, callVars>>

(***************************************************************************)
(* main.py                                                                 *)
(* Instants are whole minutes counted from today's 00:00 in Mexico City.   *)
(***************************************************************************)
DayMinutes == 24 * 60

\* TZ_MEXICO.localize(datetime.combine(target_date, time.min))
day_start(target_date) == IF target_date = "today" THEN 0 ELSE DayMinutes

\* ... time.max: the last instant of the day (23:59:59.999999), which for
\* whole-minute instants is the day's last minute
day_end(target_date) == day_start(target_date) + DayMinutes - 1

\* dt.strftime("%H:%M")
strftime(dt) == HM((dt % DayMinutes) \div 60, dt % 60)

\* re.sub(r'-+', '-', s)
RECURSIVE CollapseHyphens(_)
CollapseHyphens(s) ==
    IF Len(s) < 2 THEN s
    ELSE IF s[1] = "-" /\ s[2] = "-" THEN CollapseHyphens(Tail(s))
    ELSE <<s[1]>> \o CollapseHyphens(Tail(s))

sanitize_filename(name) ==
    LET hyphen(c) == IF IsAlnum(c) THEN c ELSE "-"
    IN  CollapseHyphens(Strip([k \in 1..Len(name) |-> hyphen(name[k])], "-"))

\* the overlap test with "p_end > day_start"
daily_schedule_strict(programs, target_date) ==
    LET overlaps(p) == /\ p.start_dt <= day_end(target_date)
                       /\ p.end_dt > day_start(target_date)
        display_start(p) == IF p.start_dt < day_start(target_date)
                              THEN day_start(target_date) ELSE p.start_dt
        shown == SelectSeq(programs, overlaps)
    IN  [k \in 1..Len(shown) |->
            [Entry(shown[k].show_name, strftime(display_start(shown[k])))
                EXCEPT !.end_time = strftime(shown[k].end_dt)]]

\* the body of "for target_date, folder in ...": the programs that overlap
\* the day, a program that began before the day shown from 00:00
daily_schedule(programs, target_date) ==
    LET overlaps(p) == /\ p.start_dt <= day_end(target_date)
                       /\ p.end_dt >= day_start(target_date)
        display_start(p) == IF p.start_dt < day_start(target_date)
                              THEN day_start(target_date) ELSE p.start_dt
        shown == SelectSeq(programs, overlaps)
    IN  [k \in 1..Len(shown) |->
            [Entry(shown[k].show_name, strftime(display_start(shown[k])))
                EXCEPT !.end_time = strftime(shown[k].end_dt)]]

\* key=lambda x: x['start_dt']
StartDtLE(L) == [i \in 1..Len(L) |-> [j \in 1..Len(L) |->
                    L[i].start_dt <= L[j].start_dt]]

\* all_extracted_data: the programmes grouped by channel name, the names in
\* the order of their first programme (dict insertion order)
RECURSIVE Group(_)
Group(progs) ==
    IF progs = <<>> THEN <<>>
    ELSE LET g == Group(SubSeq(progs, 1, Len(progs) - 1))
             p == progs[Len(progs)]
             at == {k \in 1..Len(g) : g[k].name = p.channel}
         IN  IF at = {}
               THEN Append(g, [name |-> p.channel, programs |-> <<p>>])
               ELSE [k \in 1..Len(g) |->
                       IF k \in at
                         THEN [g[k] EXCEPT !.programs = Append(@, p)]
                         ELSE g[k]]

XmlNames == {<<"A", "&", "E">>, <<"A", " ", "E">>}
Instants == {0 - 60, 60, DayMinutes, DayMinutes + 60, 2 * DayMinutes}

Programmes(n) ==
    LET one == {c \in XmlNames \X Instants \X Instants : c[2] < c[3]}
    IN  {[k \in 1..Len(cs) |-> [show_name |-> <<"p", k>>, channel |-> cs[k][1],
                                start_dt |-> cs[k][2], end_dt |-> cs[k][3]]] :
            cs \in UNION {[1..k -> one] : k \in 0..n}}

\* parts 1 and 2 of extract_schedule: get_xml_root gives None (nothing is
\* extracted) or the feed, whose programmes are grouped by channel
XmlFetch ==
    /\ script = "main" /\ pc = "start"
    /\ \E progs \in Programmes(MaxProgs) :
          /\ all_extracted_data' = Group(progs)
          /\ pc' = IF progs = <<>> THEN "finished" ELSE "x_channel"
    /\ UNCHANGED <<script, ch, attempted, error, out, html, target,
                   today_last_end, epgVars, callVars>>

\* one file of part 3: written, or not written because open raised OSError,
\* which the try around it catches
XmlFile(name, target_date, daily) ==
    IF daily # <<>>
      THEN {save_json(target_date, sanitize_filename(name) \o DotJson,
                      PyStr(name), target_date, daily), NoFile}
      ELSE {NoFile}

\* part 3 for one channel: sort, then both days
XmlChannel ==
    /\ script = "main" /\ pc = "x_channel"
    /\ \E programs \in {SortedBy(all_extracted_data[ch].programs,
                                 StartDtLE(all_extracted_data[ch].programs))} :
       \E today \in XmlFile(all_extracted_data[ch].name, "today",
                            daily_schedule(programs, "today")) :
       \E tomorrow \in XmlFile(all_extracted_data[ch].name, "tomorrow",
                               daily_schedule(programs, "tomorrow")) :
          /\ all_extracted_data' =
                [all_extracted_data EXCEPT ![ch].programs = programs]
          /\ out' = [today |-> today, tomorrow |-> tomorrow]
    /\ attempted' = attempted \cup {ch}
    /\ IF ch < Len(all_extracted_data)
         THEN pc' = "x_channel" /\ ch' = ch + 1
         ELSE pc' = "finished" /\ ch' = ch
    /\ UNCHANGED <<script, error, html, target, today_last_end,
                   epgVars, callVars>>

(***************************************************************************)
(* split_schedule_at_midnight called on its own, on any raw list           *)
(***************************************************************************)
\* "TBA" has no hour, "9:00" is not zero-padded
SplitTimes == {HM(22, 0), HM(23, 0), HM(0, 30), HM(1, 0),
               <<"T", "B", "A">>, <<"9", ":", "0", "0">>}

InitSplit ==
    /\ script = "split_schedule_at_midnight" /\ pc = "call" /\ ch = 1
    /\ attempted = {} /\ error = "" /\ out = NoWrite
    /\ soup_yest = NoSoup /\ soup_today = NoSoup /\ soup_tom = NoSoup
    /\ channel_name = PyNone
    /\ full_today_schedule = <<>> /\ full_tomorrow_schedule = <<>>
    /\ html = NoSoup /\ target = "today" /\ today_last_end = EmptyStr
    /\ all_extracted_data = <<>>
    /\ schedule_list \in ListsOver("L", SplitTimes, MaxSplitLen)
    /\ part_1 = <<>> /\ part_2 = <<>>
    /\ channels = <<>> /\ paths = <<>>
    /\ ImagesIdle /\ EndIdle

SplitCall ==
    /\ pc = "call"
    /\ \E r \in {split_schedule_at_midnight(schedule_list)} :
          part_1' = r[1] /\ part_2' = r[2]
    /\ pc' = "returned"
    /\ UNCHANGED <<script, ch, attempted, error, out, epgVars,
                   html, target, today_last_end, all_extracted_data,
                   schedule_list, pathVars, imageVars, endVars>>

NextSplit == SplitCall

SpecSplit == InitSplit /\ [][NextSplit]_vars

(***************************************************************************)
(* The output path of two distinct channels of one run, in one day folder, *)
(* as each script derives it.                                              *)
(***************************************************************************)
NameChars == {"A", "&", " "}

ChannelNames == UNION {[1..n -> NameChars] : n \in 1..MaxNameLen}

\* the file name inside schedule/<folder>/
\*   epg_scraper.py  save_json: f"{filename}.json", filename the slug
\*   scraper.py      save_schedule: the name lowered and stripped of
\*                   punctuation
\*   main.py         f"{sanitize_filename(ch_name)}.json"
OutputPath(s, c) ==
    IF s = "epg_scraper" THEN c.name \o DotJson
    ELSE IF s = "scraper" THEN ScraperFilename(c.name)
    ELSE sanitize_filename(c.name) \o DotJson

\* two channels of one run: two lines of channel.txt (slugs) or of
\* filter.txt (ids, each with the name its page shows), or two keys of
\* all_extracted_data (names)
InitPaths ==
    /\ script \in {"epg_scraper", "scraper", "main"} /\ pc = "paths_call"
    /\ ch = 1 /\ attempted = {} /\ error = "" /\ out = NoWrite
    /\ soup_yest = NoSoup /\ soup_today = NoSoup /\ soup_tom = NoSoup
    /\ channel_name = PyNone
    /\ full_today_schedule = <<>> /\ full_tomorrow_schedule = <<>>
    /\ html = NoSoup /\ target = "today" /\ today_last_end = EmptyStr
    /\ all_extracted_data = <<>>
    /\ schedule_list = <<>> /\ part_1 = <<>> /\ part_2 = <<>>
    /\ \E a, b \in ChannelNames :
          /\ script # "scraper" => a # b
          /\ channels = <<[id |-> 1, name |-> a], [id |-> 2, name |-> b]>>
    /\ paths = <<>>
    /\ ImagesIdle /\ EndIdle

PathsCall ==
    /\ pc = "paths_call"
    /\ paths' = [k \in 1..2 |-> OutputPath(script, channels[k])]
    /\ pc' = "paths_returned"
    /\ UNCHANGED <<script, ch, attempted, error, out, epgVars,
                   html, target, today_last_end, all_extracted_data,
                   splitVars, channels, imageVars, endVars>>

NextPaths == PathsCall

SpecPaths == InitPaths /\ [][NextPaths]_vars

(***************************************************************************)
(* download_show_images.py: one call of process_json                       *)
(***************************************************************************)
\* re.sub(r'[\s_-]+', '-', text)
RECURSIVE CollapseSeparators(_)
CollapseSeparators(s) ==
    LET sep(c) == c = " " \/ c = "_" \/ c = "-"
    IN  IF s = <<>> THEN <<>>
        ELSE IF sep(s[1])
          THEN IF Len(s) >= 2 /\ sep(s[2])
                 THEN CollapseSeparators(Tail(s))
                 ELSE <<"-">> \o CollapseSeparators(Tail(s))
        ELSE <<s[1]>> \o CollapseSeparators(Tail(s))

slugify(text) ==
    LET kept(c) == IsWord(c) \/ c = " " \/ c = "-"
        lowered == Strip([k \in 1..Len(text) |-> Lower(text[k])], " ")
    IN  CollapseSeparators(SelectSeq(lowered, kept))

DotWebp == <<".", "w", "e", "b", "p">>

\* a logo URL: a string, followed for a rewritten one by the file's path
Logo(url) == [url |-> url, file |-> <<>>]
FALLBACK_REPLACEMENT ==
    Logo("https://programaciontv.com.mx/wp-content/uploads/2026/01/pexels-caleboquendo-8254900.webp")
Uploaded(filename) ==
    [url |-> "https://programaciontv.com.mx/wp-content/uploads/downloaded-images",
     file |-> filename]

\* "fallback" in logo_url.lower()
LogoUrls == {"", "https://static.mi.tv/fallback.png", "https://static.mi.tv/a.jpg"}
IsFallback(logo) == logo.url = "https://static.mi.tv/fallback.png"

ShowNames == {<<"A", " ", "B">>, <<"a", "_", "b">>, <<"C">>}

Schedules ==
    UNION {[1..n -> {[show_name |-> nm, show_logo |-> Logo(u)] :
                        nm \in ShowNames, u \in LogoUrls}] : n \in 0..MaxShows}

\* the shows of the loop of process_json that pass both "continue"
Downloadable(show) == show.show_logo.url # "" /\ ~IsFallback(show.show_logo)

Filename(show) == slugify(show.show_name) \o DotWebp

\* download_tasks after the loop: a task for every show with a logo of its
\* own whose file does not exist when the loop passes it
TasksOf(schedule, files) ==
    LET wanted(show) == Downloadable(show) /\ Filename(show) \notin files
        shows == SelectSeq(schedule, wanted)
    IN  [k \in 1..Len(shows) |->
            [url |-> shows[k].show_logo.url, save_path |-> Filename(shows[k])]]

\* data["schedule"] after the loop: the logos rewritten
Rewritten(schedule) ==
    [k \in 1..Len(schedule) |->
        IF schedule[k].show_logo.url = "" THEN schedule[k]
        ELSE IF IsFallback(schedule[k].show_logo)
          THEN [schedule[k] EXCEPT !.show_logo = FALLBACK_REPLACEMENT]
        ELSE [schedule[k] EXCEPT !.show_logo = Uploaded(Filename(schedule[k]))]]

max_size_bytes == 10 * 1024

\* the qualities the loop can reach
Qualities == {85, 75, 65, 55, 45, 35, 25}

\* an image, by the size of its WEBP encoding at each quality; the size
\* does not grow as the quality drops
ImageSizes == {max_size_bytes, max_size_bytes + 1}
Images == {img \in [Qualities -> ImageSizes] :
              \A p, q \in Qualities : p < q => img[p] <= img[q]}

\* while quality >= 20: ... ; buffer is what the last encoding left
RECURSIVE QualityLoop(_, _, _, _)
QualityLoop(img, quality, buffer, n) ==
    IF quality >= 20
      THEN IF img[quality] <= max_size_bytes
             THEN [size |-> img[quality], encodings |-> n + 1]
             ELSE QualityLoop(img, quality - 10, img[quality], n + 1)
      ELSE [size |-> buffer, encodings |-> n]

Submitted == [status |-> "submitted", size |-> 0, encodings |-> 0]
Finished(status) == [status |-> status, size |-> 0, encodings |-> 0]

InitImages ==
    /\ script = "download_show_images" /\ pc = "p_loop"
    /\ ch = 1 /\ attempted = {} /\ error = "" /\ out = NoWrite
    /\ soup_yest = NoSoup /\ soup_today = NoSoup /\ soup_tom = NoSoup
    /\ channel_name = PyNone
    /\ full_today_schedule = <<>> /\ full_tomorrow_schedule = <<>>
    /\ html = NoSoup /\ target = "today" /\ today_last_end = EmptyStr
    /\ all_extracted_data = <<>>
    /\ schedule_list = <<>> /\ part_1 = <<>> /\ part_2 = <<>>
    /\ channels = <<>> /\ paths = <<>>
    /\ data \in Schedules
    /\ existing \in SUBSET {slugify(nm) \o DotWebp : nm \in ShowNames}
    /\ download_tasks = <<>> /\ workers = <<>>
    /\ EndIdle

\* the for loop over data["schedule"], then the tasks are submitted
ProcessJson ==
    /\ pc = "p_loop"
    /\ download_tasks' = TasksOf(data, existing)
    /\ data' = Rewritten(data)
    /\ workers' = [k \in 1..Len(download_tasks') |-> Submitted]
    /\ pc' = "p_pool"
    /\ UNCHANGED <<script, ch, attempted, error, out, epgVars,
                   html, target, today_last_end, all_extracted_data,
                   splitVars, pathVars, endVars, existing>>

\* download_and_convert up to open(save_path, "wb"): any exception on the
\* way is caught and the task returns False
DownloadAndConvert ==
    /\ pc = "p_pool"
    /\ \E k \in 1..Len(workers) :
          /\ workers[k].status = "submitted"
          /\ \/ /\ workers' = [workers EXCEPT ![k] = Finished("failed")]
                /\ existing' = existing
             \/ \E img \in Images :
                \E buffer \in {QualityLoop(img, 85, 0, 0)} :
                   /\ workers' = [workers EXCEPT ![k] =
                                     [status |-> "writing", size |-> buffer.size,
                                      encodings |-> buffer.encodings]]
                   /\ existing' = existing \cup {download_tasks[k].save_path}
    /\ UNCHANGED <<script, pc, ch, attempted, error, out, epgVars,
                   html, target, today_last_end, all_extracted_data,
                   splitVars, pathVars, endVars, data, download_tasks>>

\* f.write(buffer.getvalue()); return True, url
WriteImage ==
    /\ pc = "p_pool"
    /\ \E k \in 1..Len(workers) :
          /\ workers[k].status = "writing"
          /\ workers' = [workers EXCEPT ![k] = Finished("done")]
    /\ UNCHANGED <<script, pc, ch, attempted, error, out, epgVars,
                   html, target, today_last_end, all_extracted_data,
                   splitVars, pathVars, endVars, data, existing,
                   download_tasks>>

\* the pool is left when every future has completed; json.dump(data)
DumpJson ==
    /\ pc = "p_pool"
    /\ \A k \in 1..Len(workers) : workers[k].status \in {"done", "failed"}
    /\ pc' = "p_done"
    /\ UNCHANGED <<script, ch, attempted, error, out, epgVars,
                   html, target, today_last_end, all_extracted_data,
                   callVars>>

NextImages == ProcessJson \/ DownloadAndConvert \/ WriteImage \/ DumpJson

SpecImages == InitImages /\ [][NextImages]_vars

(***************************************************************************)
(* calculate_end_times on the lists main() hands it.  The lists hold       *)
(* references: heap[o] is the dict with identity o, and the function       *)
(* writes into the dicts it is given.                                      *)
(***************************************************************************)
\* the dicts a list of references points to
Deref(h, refs) == [i \in 1..Len(refs) |-> h[refs[i]]]

\* the references a..b
Refs(a, b) == [i \in 1..(b - a + 1) |-> a + i - 1]

\* a loop that also stamps the next day's first item with its own start
calculate_end_times_stamp(h, current_day_list, next_day_first_item) ==
    [heap |->
        [o \in 1..Len(h) |->
            IF \E i \in 1..Len(current_day_list) : current_day_list[i] = o
              THEN LET i == CHOOSE k \in 1..Len(current_day_list) :
                               /\ current_day_list[k] = o
                               /\ \A m \in (k + 1)..Len(current_day_list) :
                                     current_day_list[m] # o
                   IN  [h[o] EXCEPT !.end_time =
                          IF i < Len(current_day_list)
                            THEN h[current_day_list[i + 1]].start_time
                          ELSE IF next_day_first_item # <<>>
                            THEN h[next_day_first_item[1]].start_time
                          ELSE EmptyStr]
            ELSE IF next_day_first_item = <<o>>
              THEN [h[o] EXCEPT !.end_time = h[o].start_time]
            ELSE h[o]],
     list |-> current_day_list]

\* calculate_end_times as it acts on the dicts: the heap after the loop
\* (start_time is never written, so every read sees the value at entry; a
\* dict listed twice keeps the value written last) and the list returned
calculate_end_times_in_place(h, current_day_list, next_day_first_item) ==
    [heap |->
        [o \in 1..Len(h) |->
            IF \E i \in 1..Len(current_day_list) : current_day_list[i] = o
              THEN LET i == CHOOSE k \in 1..Len(current_day_list) :
                               /\ current_day_list[k] = o
                               /\ \A m \in (k + 1)..Len(current_day_list) :
                                     current_day_list[m] # o
                   IN  [h[o] EXCEPT !.end_time =
                          IF i < Len(current_day_list)
                            THEN h[current_day_list[i + 1]].start_time
                          ELSE IF next_day_first_item # <<>>
                            THEN h[next_day_first_item[1]].start_time
                          ELSE EmptyStr]
              ELSE h[o]],
     list |-> current_day_list]

\* main() up to "first_show_tm = ...": three parsed lists of fresh dicts,
\* split by slicing, which copies references, and joined
InitEnd ==
    /\ script = "calculate_end_times" /\ pc = "e_today"
    /\ ch = 1 /\ attempted = {} /\ error = "" /\ out = NoWrite
    /\ soup_yest = NoSoup /\ soup_today = NoSoup /\ soup_tom = NoSoup
    /\ channel_name = PyNone
    /\ html = NoSoup /\ target = "today" /\ today_last_end = EmptyStr
    /\ all_extracted_data = <<>>
    /\ schedule_list = <<>> /\ part_1 = <<>> /\ part_2 = <<>>
    /\ channels = <<>> /\ paths = <<>>
    /\ ImagesIdle
    /\ \E list_y \in ListsOver("y", EpgTimes, MaxAdjLen) :
       \E list_t \in ListsOver("t", EpgTimes, MaxLen) :
       \E list_tm \in ListsOver("m", EpgTimes, MaxAdjLen) :
          LET ky == Len(split_schedule_at_midnight(list_y)[1])
              kt == Len(split_schedule_at_midnight(list_t)[1])
              ktm == Len(split_schedule_at_midnight(list_tm)[1])
              ny == Len(list_y)
              nt == Len(list_t)
          IN  /\ heap = list_y \o list_t \o list_tm
              /\ full_today_schedule =
                    full_schedule(Refs(ky + 1, ny), Refs(ny + 1, ny + kt))
              /\ full_tomorrow_schedule =
                    full_schedule(Refs(ny + kt + 1, ny + nt),
                                  Refs(ny + nt + 1, ny + nt + ktm))
    /\ heap_before = heap
    /\ first_show_tm = IF full_tomorrow_schedule # <<>>
                         THEN <<full_tomorrow_schedule[1]>> ELSE <<>>

\* full_today_schedule = calculate_end_times(full_today_schedule, first_show_tm)
EndCallToday ==
    /\ pc = "e_today"
    /\ \E r \in {calculate_end_times_in_place(heap, full_today_schedule,
                                              first_show_tm)} :
          heap' = r.heap /\ full_today_schedule' = r.list
    /\ pc' = "e_tomorrow"
    /\ UNCHANGED <<script, ch, attempted, error, out,
                   soup_yest, soup_today, soup_tom, channel_name,
                   full_tomorrow_schedule,
                   html, target, today_last_end, all_extracted_data,
                   splitVars, pathVars, imageVars, heap_before, first_show_tm>>

\* full_tomorrow_schedule = calculate_end_times(full_tomorrow_schedule, None)
EndCallTomorrow ==
    /\ pc = "e_tomorrow"
    /\ \E r \in {calculate_end_times_in_place(heap, full_tomorrow_schedule,
                                              <<>>)} :
          heap' = r.heap /\ full_tomorrow_schedule' = r.list
    /\ pc' = "e_done"
    /\ UNCHANGED <<script, ch, attempted, error, out,
                   soup_yest, soup_today, soup_tom, channel_name,
                   full_today_schedule,
                   html, target, today_last_end, all_extracted_data,
                   splitVars, pathVars, imageVars, heap_before, first_show_tm>>

NextEnd == EndCallToday \/ EndCallTomorrow

SpecEnd == InitEnd /\ [][NextEnd]_vars

Next ==
    \/ EpgFetchYesterday \/ EpgFetchToday \/ EpgFetchTomorrow
    \/ EpgProcess
    \/ Advance
    \/ ScraperFetch \/ ScraperProcess \/ ScraperSleep \/ ScraperFetchTomorrow
    \/ XmlFetch \/ XmlChannel

Spec == Init /\ [][Next]_vars

(***************************************************************************)
(* Properties.                                                             *)
(***************************************************************************)
\* the hour of a start_time, where it has one
HasHour(p) == IntOk(SplitColonFirst(p.start_time))
Hour(p) == IntVal(SplitColonFirst(p.start_time))

\* the indices (1-based) at which the hour drops
Rollovers(L) ==
    {i \in 2..Len(L) : /\ HasHour(L[i - 1]) /\ HasHour(L[i])
                       /\ Hour(L[i]) < Hour(L[i - 1])}

\* the first rollover, or one past the end
FirstRollover(L) ==
    LET R == Rollovers(L)
    IN  IF R = {} THEN Len(L) + 1
        ELSE CHOOSE i \in R : \A j \in R : i <= j

PreMidnight(L) == SubSeq(L, 1, FirstRollover(L) - 1)
PostMidnight(L) == SubSeq(L, FirstRollover(L), Len(L))

\* a schedule without its synthesized end times
Raw(schedule) == [k \in 1..Len(schedule) |->
                     [schedule[k] EXCEPT !.end_time = EmptyStr]]

StartTimes(schedule) == [k \in 1..Len(schedule) |-> schedule[k].start_time]

\* the files written by the step just taken
Files == {out.today, out.tomorrow} \ {NoFile}

\* C1: split_schedule_at_midnight(L) returns (L[:k], L[k:]) where k is the
\* first index at which the hour of start_time is below the hour before it,
\* and k = len(L) when there is none (the empty list included).
C1_SplitAtFirstRollover ==
    pc = "returned" =>
        /\ part_1 = PreMidnight(schedule_list)
        /\ part_2 = PostMidnight(schedule_list)
        /\ (Rollovers(schedule_list) = {} =>
               part_1 = schedule_list /\ part_2 = <<>>)

\* [22:00 A, 23:00 B, 00:30 C, 01:00 D] came back as [A, B] and [C, D]
C1_Witness ==
    /\ pc = "returned"
    /\ StartTimes(schedule_list) = <<HM(22, 0), HM(23, 0), HM(0, 30), HM(1, 0)>>
    /\ part_1 = SubSeq(schedule_list, 1, 2)
    /\ part_2 = SubSeq(schedule_list, 3, 4)

\* the channel of epg_scraper.py whose loop body has just run to its end
EpgDone == script = "epg_scraper" /\ pc = "next"

\* C2: the list saved for today is post_midnight(yesterday) followed by
\* pre_midnight(today), the list saved for tomorrow is post_midnight(today)
\* followed by pre_midnight(tomorrow), in that order, with nothing else.
C2_SavedListsAreStitched ==
    EpgDone =>
        /\ out.today # NoFile =>
              Raw(out.today.schedule) =
                  PostMidnight(soup_yest.items) \o PreMidnight(soup_today.items)
        /\ out.tomorrow # NoFile =>
              Raw(out.tomorrow.schedule) =
                  PostMidnight(soup_today.items) \o PreMidnight(soup_tom.items)

\* both files written, each from two non-empty parts
C2_Witness ==
    /\ EpgDone
    /\ out.today # NoFile /\ out.tomorrow # NoFile
    /\ PostMidnight(soup_yest.items) # <<>> /\ PreMidnight(soup_today.items) # <<>>
    /\ PostMidnight(soup_today.items) # <<>> /\ PreMidnight(soup_tom.items) # <<>>

\* the last entry of a non-empty schedule
LastEntry(schedule) == schedule[Len(schedule)]

\* end_time[i] = start_time[i+1] for every entry but the last
Chained(schedule) ==
    \A i \in 1..(Len(schedule) - 1) :
        schedule[i].end_time = schedule[i + 1].start_time

\* main.py: the channel whose files the step just taken wrote, and its
\* programmes
XmlDone == script = "main" /\ attempted # {}
XmlProcessed == IF pc = "x_channel" THEN ch - 1 ELSE ch
XmlPrograms == all_extracted_data[XmlProcessed].programs
ProgrammeOf(entry) ==
    CHOOSE k \in 1..Len(XmlPrograms) :
        XmlPrograms[k].show_name = entry.show_name

\* the schedule of the file of one folder
Saved(folder) == out[folder].schedule

C4_SortedByStartTime ==
    \A f \in Files : \A i \in 1..(Len(f.schedule) - 1) :
        StrLE(f.schedule[i].start_time, f.schedule[i + 1].start_time)

\* C5: in every schedule written, the start_time values are pairwise
\* distinct.
C5_NoDuplicateStartTime ==
    \A f \in Files : \A i, j \in 1..Len(f.schedule) :
        i # j => f.schedule[i].start_time # f.schedule[j].start_time

\* what epg_scraper.py assembles for tomorrow from the pages in hand
AssembledTomorrow ==
    PostMidnight(soup_today.items) \o PreMidnight(soup_tom.items)

\* scraper.py: the hora of the items of the page in hand that are dated the
\* target day and lie outside 00..23
Dropped ==
    {html.items[k].hora : k \in {n \in 1..Len(html.items) :
        /\ html.items[n].fecha = target
        /\ IntVal(SplitColonFirst(html.items[n].hora)) > 23}}

\* epg_scraper.py: today's last entry ends at the first start of what is
\* assembled for tomorrow, or at "" when that is empty; tomorrow's last entry
\* ends at ""
EpgLastEndTime ==
    EpgDone =>
        /\ out.today # NoFile =>
              \E nxt \in {AssembledTomorrow} :
                  LastEntry(Saved("today")).end_time =
                      IF nxt # <<>> THEN nxt[1].start_time ELSE EmptyStr
        /\ out.tomorrow # NoFile =>
              LastEntry(Saved("tomorrow")).end_time = EmptyStr

\* C6 (as claimed): the last entry of a saved schedule ends at the first
\* start_time of the next day's list when that list is non-empty, and
\* otherwise at "" (epg_scraper.py) or "23:59" (scraper.py).
C6_LastEndsAtNextDayFirstStart ==
    /\ EpgLastEndTime
    /\ (script = "scraper" /\ pc = "s_sleep" /\ target = "tomorrow"
            /\ today_last_end # EmptyStr) =>
           today_last_end =
               IF out.tomorrow # NoFile /\ Saved("tomorrow") # <<>>
                 THEN Saved("tomorrow")[1].start_time
                 ELSE HM(23, 59)

\* C6: in epg_scraper.py the last entry of today's file ends at the first
\* start_time of the list assembled for tomorrow when that list is non-empty
\* and at "" otherwise, and the last entry of tomorrow's file ends at ""; in
\* scraper.py the last entry of either file ends at "23:59" whatever the
\* next day's list holds, or, when filter_24hour_schedule dropped entries,
\* at the start_time of the first entry dropped.
C6_LastEndTime ==
    /\ EpgLastEndTime
    /\ (script = "scraper" /\ pc = "s_sleep") =>
           \A f \in Files : f.schedule # <<>> =>
               LastEntry(f.schedule).end_time =
                   IF Dropped = {} THEN HM(23, 59)
                   ELSE CHOOSE d \in Dropped : \A e \in Dropped : StrLE(d, e)

\* today's single entry ends where the list assembled for tomorrow starts
C6_Witness ==
    /\ EpgDone
    /\ out.today # NoFile /\ out.tomorrow # NoFile
    /\ Len(Saved("today")) = 1
    /\ Saved("today")[1].start_time = HM(23, 0)
    /\ Saved("today")[1].end_time = HM(0, 30)
    /\ Saved("tomorrow")[1].start_time = HM(0, 30)

\* C7: no file is written with an empty schedule, in any script, the
\* time-window filter applied.
C7_NoEmptySchedule ==
    \A f \in Files : f.schedule # <<>>

\* a page get_soup could not fetch counts as a page without programs
ItemsOr(soup) == IF soup.ok THEN soup.items ELSE <<>>

\* C8: when any of the three fetches of a channel of epg_scraper.py failed,
\* processing the channel raises nothing from the missing page, and each
\* day's file is what stitching the fetched lists, with the empty list for
\* a failed one, gives: written exactly when that is non-empty.
C8_FailedFetchIsEmptyList ==
    /\ script = "epg_scraper" => error # "AttributeError"
    /\ (EpgDone /\ ~(soup_yest.ok /\ soup_today.ok /\ soup_tom.ok)) =>
           \E today \in {PostMidnight(ItemsOr(soup_yest))
                            \o PreMidnight(ItemsOr(soup_today))} :
           \E tomorrow \in {PostMidnight(ItemsOr(soup_today))
                               \o PreMidnight(ItemsOr(soup_tom))} :
               /\ IF today = <<>> THEN out.today = NoFile
                  ELSE out.today # NoFile /\ Raw(Saved("today")) = today
               /\ IF tomorrow = <<>> THEN out.tomorrow = NoFile
                  ELSE out.tomorrow # NoFile
                       /\ Raw(Saved("tomorrow")) = tomorrow

\* yesterday's and tomorrow's pages failed, today's page still gives both
\* files
C8_Witness ==
    /\ EpgDone
    /\ ~soup_yest.ok /\ soup_today.ok /\ ~soup_tom.ok
    /\ out.today # NoFile /\ out.tomorrow # NoFile

\* C9: a run of epg_scraper.py that has stopped has attempted every channel
\* of the list and was ended by no exception.
C9_EveryChannelAttempted ==
    (script = "epg_scraper" /\ pc \in {"finished", "crashed"}) =>
        attempted = 1..MaxChannels /\ pc = "finished"

\* C10: when main.py writes a day's file for a channel, a programme of the
\* channel is in it if and only if start <= end_of_day and end >=
\* start_of_day, shown from 00:00 when it began before the day and from its
\* own start otherwise; a file is written only when some programme is.
C10_IntervalOverlap ==
    XmlDone =>
        \A D \in {"today", "tomorrow"} : out[D] # NoFile =>
            /\ Saved(D) # <<>>
            /\ \A k \in 1..Len(XmlPrograms) :
                  (\E i \in 1..Len(Saved(D)) :
                       Saved(D)[i].show_name = XmlPrograms[k].show_name)
                  <=> (/\ XmlPrograms[k].start_dt <= day_end(D)
                       /\ XmlPrograms[k].end_dt >= day_start(D))
            /\ \A i \in 1..Len(Saved(D)) :
                  \E p \in {XmlPrograms[ProgrammeOf(Saved(D)[i])]} :
                      Saved(D)[i].start_time =
                          IF p.start_dt < day_start(D) THEN HM(0, 0)
                          ELSE strftime(p.start_dt)

\* 01:00 today to 01:00 tomorrow is in both files, 01:00 today to 00:00
\* tomorrow as well, and both are shown from 00:00 tomorrow
C10_Witness ==
    /\ XmlDone
    /\ out.today # NoFile /\ out.tomorrow # NoFile
    /\ Len(Saved("today")) = 2 /\ Len(Saved("tomorrow")) = 2
    /\ {<<p.start_dt, p.end_dt>> : p \in {XmlPrograms[k] : k \in 1..Len(XmlPrograms)}}
          = {<<60, DayMinutes + 60>>, <<60, DayMinutes>>}
    /\ \A i \in 1..2 : Saved("tomorrow")[i].start_time = HM(0, 0)
    /\ \A i \in 1..2 : Saved("today")[i].start_time = HM(1, 0)

\* C11: within one run and one day folder, two distinct channels never
\* write the same file path, whichever script derives the path.
C11_DistinctChannelsDistinctPaths ==
    pc = "paths_returned" => paths[1] # paths[2]

\* C12: in every file written by epg_scraper.py the channel field is a
\* string: the display name of the today page when it has one, the slug
\* otherwise.
C12_ChannelIsString ==
    script = "epg_scraper" =>
        \A f \in Files :
            /\ f.channel.type = "str"
            /\ EpgDone =>
                  f.channel.val =
                      IF soup_today.ok /\ soup_today.title # "Unknown"
                        THEN soup_today.title ELSE Channels[ch]

\* C13: whenever download_and_convert writes save_path, it writes at most
\* 10*1024 bytes, and its quality loop has made at most 7 encodings.
C13_WritesAtMost10KB ==
    \A k \in 1..Len(workers) : workers[k].status = "writing" =>
        /\ workers[k].size <= 10 * 1024
        /\ workers[k].encodings <= 7

\* C16: within one process_json call no two download tasks have the same
\* save path, and no two workers are writing the same file at once.
C16_NoTwoTasksSameSavePath ==
    \A j, k \in 1..Len(download_tasks) :
        j # k =>
            /\ download_tasks[j].save_path # download_tasks[k].save_path
            /\ ~(workers[j].status = "writing" /\ workers[k].status = "writing"
                   /\ download_tasks[j].save_path = download_tasks[k].save_path)

\* C14: for any raw list L, entries without a parsable hour included, the
\* two parts split_schedule_at_midnight returns give L back when joined:
\* pre ++ post = L, so every entry of L is in exactly one part, in its
\* original order.
C14_PartsJoinToList ==
    pc = "returned" =>
        /\ part_1 \o part_2 = schedule_list
        /\ \A i \in 1..Len(schedule_list) :
              IF i <= Len(part_1) THEN part_1[i] = schedule_list[i]
              ELSE part_2[i - Len(part_1)] = schedule_list[i]

\* a list with an entry at "TBA" was cut into two non-empty parts
C14_Witness ==
    /\ pc = "returned"
    /\ \E i \in 1..Len(schedule_list) : ~HasHour(schedule_list[i])
    /\ part_1 # <<>> /\ part_2 # <<>>
    /\ Len(part_1) + Len(part_2) = Len(schedule_list)

\* the fields calculate_end_times has no business with
Frame(entry) == [entry EXCEPT !.end_time = EmptyStr]

\* C15: calculate_end_times changes end_time only: the list it returns has
\* the length and the order of the list it was given, every dict keeps its
\* show_name, show_logo, show_category, start_time and episode_description,
\* and the anchor is not modified; after today's synthesis every dict of
\* full_tomorrow is as it was, so that tomorrow's list comes out as if
\* today's synthesis had not run.
C15_OnlyEndTimeChanges ==
    script = "calculate_end_times" =>
        /\ Len(heap) = Len(heap_before)
        /\ \A o \in 1..Len(heap) : Frame(heap[o]) = Frame(heap_before[o])
        /\ \A o \in 1..Len(heap) :
              heap[o] # heap_before[o] =>
                  \/ \E i \in 1..Len(full_today_schedule) :
                         full_today_schedule[i] = o
                  \/ /\ pc = "e_done"
                     /\ \E i \in 1..Len(full_tomorrow_schedule) :
                            full_tomorrow_schedule[i] = o
        /\ pc = "e_tomorrow" =>
              /\ first_show_tm # <<>> =>
                    heap[first_show_tm[1]] = heap_before[first_show_tm[1]]
              /\ Deref(heap, full_tomorrow_schedule)
                    = Deref(heap_before, full_tomorrow_schedule)
              /\ Deref(heap, full_today_schedule)
                    = calculate_end_times(
                          Deref(heap_before, full_today_schedule),
                          Deref(heap_before, first_show_tm))
        /\ pc = "e_done" =>
              Deref(heap, full_tomorrow_schedule)
                  = calculate_end_times(
                        Deref(heap_before, full_tomorrow_schedule), <<>>)

\* today's two dicts got their end times, the second from the anchor, and
\* the anchor and the rest of full_tomorrow are as they were
C15_Witness ==
    /\ script = "calculate_end_times" /\ pc = "e_tomorrow"
    /\ Len(full_today_schedule) = 2 /\ Len(full_tomorrow_schedule) = 2
    /\ heap[full_today_schedule[2]].end_time
          = heap[first_show_tm[1]].start_time
    /\ heap[full_today_schedule[2]] # heap_before[full_today_schedule[2]]
    /\ heap[first_show_tm[1]].end_time = EmptyStr
====
